---------------------------- MODULE Spec2Model ----------------------------
(***************************************************************************)
(* A model of the two React components of the bootloader repository:       *)
(*                                                                         *)
(*   XPBootScreen (src/unnamed/part_000): the POST / bootloader / boot /   *)
(*   login / logging-in / desktop phase machine, its timers and its        *)
(*   keyboard and click handlers;                                          *)
(*                                                                         *)
(*   App (src/src/App.tsx, lines 1-350): the config-driven Clover picker,  *)
(*   its config load, its selection indices, its options modal and its     *)
(*   boot-navigation timeout.                                              *)
(*                                                                         *)
(* Each component has its own specification (SpecXP, SpecApp); the         *)
(* variables of the other component keep their initial values.             *)
(*                                                                         *)
(* React semantics assumed throughout (React 18): the state updates of one *)
(* handler or callback are batched into one render, the effects whose      *)
(* dependencies changed run after that render (cleanup first), and the     *)
(* handler together with the effects it triggers is one atomic step.       *)
(* A state update on an unmounted component is ignored.                    *)
(***************************************************************************)
EXTENDS Integers, Sequences, FiniteSets, TLC

(***************************************************************************)
(* Bounds of the model.                                                    *)
(***************************************************************************)
\* longest users list passed to XPBootScreen
MaxUsers == 2
\* most login timeouts ever started by one component instance
MaxLoginTimers == 2
\* longest themes list of a config.json
MaxThemes == 2
\* most boot-navigation timeouts ever started by one App instance
MaxNavTimers == 1

(***************************************************************************)
(* Program constants of XPBootScreen.                                      *)
(***************************************************************************)
totalMemory == 2097152
memorySteps == 15
memoryPeriod == 120
addLinesDelay == 2000
countdownPeriod == 1000
loginDelay == 2000
countdownStart == 5

\* a timer that is not running (cleared, fired, or never started)
Off == 0 - 1

Phases == <<"post", "bootloader", "boot", "login", "logging-in", "desktop">>

PhaseRank(p) == CHOOSE i \in 1..Len(Phases) : Phases[i] = p

bootOptions == <<"start", "safemode", "lastknown">>

\* null and undefined user values (selectedUser, loggingInUser, users[i] out of range)
Null == [id |-> "<null>", name |-> "<null>"]
Undefined == [id |-> "<undefined>", name |-> "<undefined>"]

Truthy(u) == u \notin {Null, Undefined}

defaultUsers == << [id |-> "1", name |-> "Administrator"],
                   [id |-> "2", name |-> "Guest"] >>

\* the user objects the users prop is built from; two of them share an id
UserPool == << defaultUsers[1], defaultUsers[2], [id |-> "1", name |-> "Clone"] >>

\* the members of UserPool at the positions S, in the pool's order
PickUsers(S) ==
  [i \in 1..Cardinality(S) |->
     UserPool[CHOOSE k \in S : Cardinality({j \in S : j < k}) = i - 1]]

\* the users props tried: every list of at most MaxUsers distinct user
\* objects, up to the order of the objects
UserLists ==
  { PickUsers(S) : S \in { T \in SUBSET DOMAIN UserPool : Cardinality(T) <= MaxUsers } }

\* the (postDuration, bootloaderDuration, bootDuration) props tried: the
\* defaults and a set of shorter ones
DurationProps == { <<3500, 5000, 4000>>, <<1500, 2000, 1000>> }

\* the keys pressed: the ones a handler names and one it does not
Keys == {"Escape", "ArrowUp", "ArrowDown", "ArrowLeft", "ArrowRight", "Enter", "F1"}
XPKeys == {"Escape", "ArrowUp", "ArrowDown", "Enter", "F1"}

VARIABLES
  \* ---- XPBootScreen: props
  users, postDuration, bootloaderDuration, bootDuration,
  \* ---- XPBootScreen: useState
  phase, selectedUser, loggingInUser, memoryCount, postLines,
  bootloaderIndex, countdown,
  \* ---- XPBootScreen: timers (remaining ms, or Off) and closure state
  currentMemory,        \* number of memoryInterval firings so far
  memoryInterval, addLinesTimeout, transitionTimeout,
  countdownInterval, timer,
  loginTimeouts,        \* sequence of [rem, user], in creation order
  \* ---- XPBootScreen: environment
  xpMounted,            \* the component is mounted
  phaseElapsed,         \* ms since the current phase began
  onLoginCalls,         \* the users onLogin was invoked with, in order
  xpEvent               \* the last handler or callback that ran, the branch
                        \* it took and the number of onExit calls it made

xpProps == <<users, postDuration, bootloaderDuration, bootDuration>>
xpState == <<phase, selectedUser, loggingInUser, memoryCount, postLines,
             bootloaderIndex, countdown>>
xpTimers == <<currentMemory, memoryInterval, addLinesTimeout, transitionTimeout,
              countdownInterval, timer, loginTimeouts>>
xpEnv == <<xpMounted, phaseElapsed, onLoginCalls, xpEvent>>
xpVars == <<xpProps, xpState, xpTimers, xpEnv>>

VARIABLES
  \* ---- App: useState (App.tsx lines 83-91)
  config, themes, themeId, selectedIndex, status, activeRow, actionIndex,
  showOptions, optionIndex,
  \* ---- App: environment
  loadState,            \* the config.json promise: "pending", "loaded", "failed"
  navTimers,            \* urls of the pending bootEntry timeouts, oldest first
  location,             \* window.location.href: AppPage or a url navigated to
  appMounted            \* the component is mounted

appState == <<config, themes, themeId, selectedIndex, status, activeRow,
              actionIndex, showOptions, optionIndex>>
appEnv == <<loadState, navTimers, location, appMounted>>
appVars == <<appState, appEnv>>

VARIABLES
  \* ---- the static-theme App: useState (App.tsx lines 445-449)
  staticThemeId, staticSelectedIndex, staticStatus, staticActiveRow,
  staticActionIndex,
  staticMounted         \* the page mounts this App instead of the config-driven one

staticVars == <<staticThemeId, staticSelectedIndex, staticStatus,
                staticActiveRow, staticActionIndex, staticMounted>>

vars == <<xpVars, appVars, staticVars>>

XPEv(kind, key, index, branch) ==
  [kind |-> kind, key |-> key, index |-> index, branch |-> branch, onExit |-> 0]

\* an event whose handler invoked onExit once
XPExitEv(kind, key) ==
  [kind |-> kind, key |-> key, index |-> 0, branch |-> "exit", onExit |-> 1]

(***************************************************************************)
(* XPBootScreen: construction and first effects (part_000 lines 34-129).   *)
(***************************************************************************)
XPInit ==
  /\ users \in UserLists
  /\ \E d \in DurationProps :
       /\ postDuration = d[1]
       /\ bootloaderDuration = d[2]
       /\ bootDuration = d[3]
  /\ phase = "post"
  /\ selectedUser = Null
  /\ loggingInUser = Null
  /\ memoryCount = 0
  /\ postLines = 5
  /\ bootloaderIndex = 0
  /\ countdown = countdownStart
  /\ currentMemory = 0
  /\ memoryInterval = memoryPeriod
  /\ addLinesTimeout = addLinesDelay
  /\ transitionTimeout = postDuration
  /\ countdownInterval = Off
  /\ timer = Off
  /\ loginTimeouts = <<>>
  /\ xpMounted = TRUE
  /\ phaseElapsed = 0
  /\ onLoginCalls = <<>>
  /\ xpEvent = XPEv("mount", "", 0, "")

(***************************************************************************)
(* setPhase(next) followed by the effects keyed on phase: the cleanup of   *)
(* the phase left (lines 96-100, 118, 127) and the timers of the phase     *)
(* entered (lines 107-116, 124-126).  Setting the phase it already has     *)
(* re-runs nothing.                                                        *)
(***************************************************************************)
\* setPhase with the cleanups of the phase left forgotten: the timers of
\* the old phase keep running
setPhaseNoCleanup(next) ==
  /\ phase' = next
  /\ IF next = phase
       THEN UNCHANGED <<memoryInterval, addLinesTimeout, transitionTimeout,
                        countdownInterval, timer, phaseElapsed>>
       ELSE /\ UNCHANGED <<memoryInterval, addLinesTimeout, transitionTimeout>>
            /\ countdownInterval' = IF next = "bootloader" THEN countdownPeriod
                                     ELSE countdownInterval
            /\ timer' = IF next = "boot" THEN bootDuration ELSE timer
            /\ phaseElapsed' = 0

setPhase(next) ==
  /\ phase' = next
  /\ IF next = phase
       THEN UNCHANGED <<memoryInterval, addLinesTimeout, transitionTimeout,
                        countdownInterval, timer, phaseElapsed>>
       ELSE /\ memoryInterval' = Off
            /\ addLinesTimeout' = Off
            /\ transitionTimeout' = Off
            /\ countdownInterval' = IF next = "bootloader" THEN countdownPeriod ELSE Off
            /\ timer' = IF next = "boot" THEN bootDuration ELSE Off
            /\ phaseElapsed' = 0

\* the value Math.floor(currentMemory) after k firings of memoryInterval;
\* the 15th sum of IEEE doubles is 2097151.9999999998, so the clamp to
\* totalMemory happens on the 16th firing
MemoryAt(k) ==
  IF k > memorySteps THEN totalMemory
  ELSE IF k = memorySteps THEN totalMemory - 1
  ELSE (k * totalMemory) \div memorySteps


(***************************************************************************)
(* POST effect callbacks (lines 66-94).                                    *)
(***************************************************************************)
memoryIntervalFire ==
  /\ memoryInterval = 0
  /\ currentMemory' = currentMemory + 1
  /\ memoryInterval' = IF currentMemory' > memorySteps THEN Off ELSE memoryPeriod
  /\ memoryCount' = MemoryAt(currentMemory')
  /\ xpEvent' = XPEv("timer", "", 0, "memoryInterval")
  /\ UNCHANGED <<appVars, staticVars, xpProps, phase, selectedUser, loggingInUser, postLines,
                 bootloaderIndex, countdown, addLinesTimeout, transitionTimeout,
                 countdownInterval, timer, loginTimeouts, xpMounted,
                 phaseElapsed, onLoginCalls>>

addLinesTimeoutFire ==
  /\ addLinesTimeout = 0
  /\ postLines' = postLines + 9
  /\ addLinesTimeout' = Off
  /\ xpEvent' = XPEv("timer", "", 0, "addLinesTimeout")
  /\ UNCHANGED <<appVars, staticVars, xpProps, phase, selectedUser, loggingInUser, memoryCount,
                 bootloaderIndex, countdown, currentMemory, memoryInterval,
                 transitionTimeout, countdownInterval, timer, loginTimeouts,
                 xpMounted, phaseElapsed, onLoginCalls>>

transitionTimeoutFire ==
  /\ transitionTimeout = 0
  /\ setPhase("bootloader")
  /\ xpEvent' = XPEv("timer", "", 0, "transitionTimeout")
  /\ UNCHANGED <<appVars, staticVars, xpProps, selectedUser, loggingInUser, memoryCount, postLines,
                 bootloaderIndex, countdown, currentMemory, loginTimeouts,
                 xpMounted, onLoginCalls>>

(***************************************************************************)
(* Bootloader countdown (lines 104-119): the interval callback.            *)
(***************************************************************************)
\* a countdown that changes the phase one tick after it reached 0
countdownIntervalFireLate ==
  /\ countdownInterval = 0
  /\ IF countdown <= 0
       THEN /\ countdown' = 0
            /\ setPhase("boot")
       ELSE /\ countdown' = countdown - 1
            /\ countdownInterval' = countdownPeriod
            /\ UNCHANGED <<phase, memoryInterval, addLinesTimeout,
                           transitionTimeout, timer, phaseElapsed>>
  /\ xpEvent' = XPEv("timer", "", 0, "countdownInterval")
  /\ UNCHANGED <<appVars, staticVars, xpProps, selectedUser, loggingInUser, memoryCount, postLines,
                 bootloaderIndex, currentMemory, loginTimeouts, xpMounted,
                 onLoginCalls>>

countdownIntervalFire ==
  /\ countdownInterval = 0
  /\ IF countdown <= 1
       THEN /\ countdown' = 0
            /\ setPhase("boot")
       ELSE /\ countdown' = countdown - 1
            /\ countdownInterval' = countdownPeriod
            /\ UNCHANGED <<phase, memoryInterval, addLinesTimeout,
                           transitionTimeout, timer, phaseElapsed>>
  /\ xpEvent' = XPEv("timer", "", 0, "countdownInterval")
  /\ UNCHANGED <<appVars, staticVars, xpProps, selectedUser, loggingInUser, memoryCount, postLines,
                 bootloaderIndex, currentMemory, loginTimeouts, xpMounted,
                 onLoginCalls>>

(***************************************************************************)
(* Windows boot animation timer (lines 122-129).                           *)
(***************************************************************************)
bootTimerFire ==
  /\ timer = 0
  /\ setPhase("login")
  /\ xpEvent' = XPEv("timer", "", 0, "timer")
  /\ UNCHANGED <<appVars, staticVars, xpProps, selectedUser, loggingInUser, memoryCount, postLines,
                 bootloaderIndex, countdown, currentMemory, loginTimeouts,
                 xpMounted, onLoginCalls>>

(***************************************************************************)
(* handleLogin (lines 132-140): the part that runs at once.  The timeout   *)
(* it starts is kept in no variable of the component and is never cleared. *)
(***************************************************************************)
\* a handleLogin that starts no timeout
handleLoginNoTimeout(user) ==
  /\ loggingInUser' = user
  /\ setPhase("logging-in")
  /\ loginTimeouts' = loginTimeouts

handleLogin(user) ==
  /\ loggingInUser' = user
  /\ setPhase("logging-in")
  /\ loginTimeouts' = Append(loginTimeouts, [rem |-> loginDelay, user |-> user])

\* the callback of handleLogin's timeout (lines 136-139)
loginTimeoutFire ==
  /\ loginTimeouts # <<>>
  /\ Head(loginTimeouts).rem = 0
  /\ IF xpMounted
       THEN setPhase("desktop")
       ELSE UNCHANGED <<phase, memoryInterval, addLinesTimeout,
                        transitionTimeout, countdownInterval, timer,
                        phaseElapsed>>
  /\ onLoginCalls' = Append(onLoginCalls, Head(loginTimeouts).user)
  /\ loginTimeouts' = Tail(loginTimeouts)
  /\ xpEvent' = XPEv("timer", "", 0, "loginTimeout")
  /\ UNCHANGED <<appVars, staticVars, xpProps, selectedUser, loggingInUser, memoryCount, postLines,
                 bootloaderIndex, countdown, currentMemory, xpMounted>>

(***************************************************************************)
(* handleUserClick (lines 143-149), reached from the tiles the login       *)
(* screen renders while the phase is login or logging-in (lines 259-292).  *)
(***************************************************************************)
handleUserClick(i) ==
  /\ xpMounted
  /\ phase \in {"login", "logging-in"}
  /\ i \in 1..Len(users)
  /\ IF Truthy(selectedUser) /\ selectedUser.id = users[i].id
       THEN /\ Len(loginTimeouts) < MaxLoginTimers
            /\ handleLogin(users[i])
            /\ xpEvent' = XPEv("click", "", i - 1, "login")
            /\ UNCHANGED selectedUser
       ELSE /\ selectedUser' = users[i]
            /\ xpEvent' = XPEv("click", "", i - 1, "select")
            /\ UNCHANGED <<phase, loggingInUser, memoryInterval, addLinesTimeout,
                           transitionTimeout, countdownInterval, timer,
                           loginTimeouts, phaseElapsed>>
  /\ UNCHANGED <<appVars, staticVars, xpProps, memoryCount, postLines, bootloaderIndex, countdown,
                 currentMemory, xpMounted, onLoginCalls>>

\* users.findIndex(u => u.id === id): 0-based, -1 when there is none
findIndex(id) ==
  IF \E i \in 1..Len(users) : users[i].id = id
    THEN (CHOOSE i \in 1..Len(users) :
            /\ users[i].id = id
            /\ \A j \in 1..(i - 1) : users[j].id # id) - 1
    ELSE 0 - 1

\* users[i] for a 0-based i
userAt(i) == IF i >= 0 /\ i < Len(users) THEN users[i + 1] ELSE Undefined

(***************************************************************************)
(* handleKeyDown (lines 153-193); the listener exists while mounted.       *)
(***************************************************************************)
\* an Escape branch that also drops the selection
escapeKeyDeselect(key) ==
  /\ xpEvent' = XPExitEv("key", key)
  /\ selectedUser' = Null
  /\ UNCHANGED <<phase, loggingInUser, memoryCount, postLines, bootloaderIndex,
                 countdown, xpTimers, phaseElapsed>>

\* an Escape branch that also ends the POST screen
escapeKeySkipsPost(key) ==
  /\ xpEvent' = XPExitEv("key", key)
  /\ IF phase = "post"
       THEN /\ setPhase("bootloader")
            /\ UNCHANGED <<selectedUser, loggingInUser, memoryCount, postLines,
                           bootloaderIndex, countdown, currentMemory,
                           loginTimeouts>>
       ELSE UNCHANGED <<xpState, xpTimers, phaseElapsed>>

\* ESC exits at any phase (lines 155-158): onExit, then return
escapeKey(key) ==
  /\ xpEvent' = XPExitEv("key", key)
  /\ UNCHANGED <<xpState, xpTimers, phaseElapsed>>

\* a bootloader menu whose ArrowDown stops at the last option
moveBootloaderIndexNoWrap(prev, key) ==
  IF key = "ArrowUp"
    THEN (prev - 1 + Len(bootOptions)) % Len(bootOptions)
    ELSE IF prev + 1 < Len(bootOptions) THEN prev + 1 ELSE prev

\* the updaters of setBootloaderIndex (lines 164, 167)
moveBootloaderIndex(prev, key) ==
  IF key = "ArrowUp"
    THEN (prev - 1 + Len(bootOptions)) % Len(bootOptions)
    ELSE (prev + 1) % Len(bootOptions)

handleKeyDown(key) ==
  /\ xpMounted
  /\ IF key = "Escape"
       THEN escapeKey(key)
     ELSE IF phase = "bootloader" /\ key \in {"ArrowUp", "ArrowDown"}
       THEN /\ bootloaderIndex' = moveBootloaderIndex(bootloaderIndex, key)
            /\ xpEvent' = XPEv("key", key, 0, "bootloader")
            /\ UNCHANGED <<phase, selectedUser, loggingInUser, memoryCount,
                           postLines, countdown, xpTimers, phaseElapsed>>
     ELSE IF phase = "bootloader" /\ key = "Enter"
       THEN /\ setPhase("boot")
            /\ xpEvent' = XPEv("key", key, 0, "bootloader")
            /\ UNCHANGED <<selectedUser, loggingInUser, memoryCount, postLines,
                           bootloaderIndex, countdown, currentMemory,
                           loginTimeouts>>
     ELSE IF phase = "login" /\ key \in {"ArrowUp", "ArrowDown"}
       THEN LET currentIndex == IF Truthy(selectedUser)
                                  THEN findIndex(selectedUser.id) ELSE 0 - 1
                newIndex == IF key = "ArrowUp"
                              THEN (IF currentIndex <= 0
                                      THEN Len(users) - 1 ELSE currentIndex - 1)
                              ELSE (IF currentIndex >= Len(users) - 1
                                      THEN 0 ELSE currentIndex + 1)
            IN /\ selectedUser' = userAt(newIndex)
               /\ xpEvent' = XPEv("key", key, 0, "login")
               /\ UNCHANGED <<phase, loggingInUser, memoryCount, postLines,
                              bootloaderIndex, countdown, xpTimers,
                              phaseElapsed>>
     ELSE IF phase = "login" /\ key = "Enter" /\ Truthy(selectedUser)
       THEN /\ Len(loginTimeouts) < MaxLoginTimers
            /\ handleLogin(selectedUser)
            /\ xpEvent' = XPEv("key", key, 0, "login")
            /\ UNCHANGED <<selectedUser, memoryCount, postLines, bootloaderIndex,
                           countdown, currentMemory>>
     ELSE /\ xpEvent' = XPEv("key", key, 0, "none")
          /\ UNCHANGED <<xpState, xpTimers, phaseElapsed>>
  /\ UNCHANGED <<appVars, staticVars, xpProps, xpMounted, onLoginCalls>>

\* a click on a boot option of the bootloader screen (lines 232-235)
bootOptionClick(index) ==
  /\ xpMounted
  /\ phase = "bootloader"
  /\ bootloaderIndex' = index
  /\ setPhase("boot")
  /\ xpEvent' = XPEv("click", "", index, "bootOption")
  /\ UNCHANGED <<appVars, staticVars, xpProps, selectedUser, loggingInUser, memoryCount, postLines,
                 countdown, currentMemory, loginTimeouts, xpMounted,
                 onLoginCalls>>

\* the desktop's "Exit to Bootloader" button (line 312)
exitButtonClick ==
  /\ xpMounted
  /\ phase = "desktop"
  /\ xpEvent' = XPExitEv("click", "")
  /\ UNCHANGED <<appVars, staticVars, xpProps, xpState, xpTimers, xpMounted, phaseElapsed,
                 onLoginCalls>>

(***************************************************************************)
(* Unmount: every effect's cleanup runs (lines 96-100, 118, 127, 196).     *)
(* No cleanup exists for the timeouts handleLogin started.                 *)
(***************************************************************************)
xpUnmount ==
  /\ xpMounted
  /\ xpMounted' = FALSE
  /\ memoryInterval' = Off
  /\ addLinesTimeout' = Off
  /\ transitionTimeout' = Off
  /\ countdownInterval' = Off
  /\ timer' = Off
  /\ xpEvent' = XPEv("unmount", "", 0, "")
  /\ UNCHANGED <<appVars, staticVars, xpProps, xpState, currentMemory, loginTimeouts, phaseElapsed,
                 onLoginCalls>>

(***************************************************************************)
(* The passage of time, to the next timer deadline.  A timer that is due   *)
(* fires before time moves on; handlers run at any point in between.       *)
(***************************************************************************)
xpPending ==
  { t \in {memoryInterval, addLinesTimeout, transitionTimeout,
           countdownInterval, timer} : t # Off }
  \cup { loginTimeouts[i].rem : i \in 1..Len(loginTimeouts) }

xpNextDeadline == CHOOSE t \in xpPending : \A u \in xpPending : t <= u

xpElapse(t, dt) == IF t = Off THEN Off ELSE t - dt

\* the steps time may take from the current state
xpAdvanceSteps ==
  IF xpPending = {} \/ 0 \in xpPending
    THEN {}
    ELSE {xpNextDeadline}

xpAdvance(dt) ==
  /\ dt \in xpAdvanceSteps
  /\ memoryInterval' = xpElapse(memoryInterval, dt)
  /\ addLinesTimeout' = xpElapse(addLinesTimeout, dt)
  /\ transitionTimeout' = xpElapse(transitionTimeout, dt)
  /\ countdownInterval' = xpElapse(countdownInterval, dt)
  /\ timer' = xpElapse(timer, dt)
  /\ loginTimeouts' = [i \in 1..Len(loginTimeouts) |->
                         [loginTimeouts[i] EXCEPT !.rem = @ - dt]]
  /\ phaseElapsed' = phaseElapsed + dt
  /\ xpEvent' = XPEv("time", "", 0, "")
  /\ UNCHANGED <<appVars, staticVars, xpProps, xpState, currentMemory, xpMounted, onLoginCalls>>


(***************************************************************************)
(* App (src/src/App.tsx lines 1-350): the documents config.json may hold.  *)
(* Of an entry only name and url, of an action only id and name, of a      *)
(* theme only id, type, entries and actions reach the component's state.   *)
(* An id is a sequence of string pieces; `clover-${name}` is the piece     *)
(* "clover-" followed by the name.  A field a malformed document lacks is  *)
(* marked by its has... flag.                                              *)
(***************************************************************************)
AppPage == "index.html"

Entry(name, url) == [name |-> name, url |-> url]
Action(id, name) == [id |-> id, name |-> name]

optionsAction == Action("options", "Options")

ThemePool ==
  << [id |-> <<"classic">>, type |-> "builtin", hasEntries |-> TRUE,
      entries |-> <<Entry("HFS", "hfs/index.html"), Entry("RECOVERY", "")>>,
      actions |-> <<Action("shell", "UEFI Shell"), optionsAction>>],
     [id |-> <<"empty">>, type |-> "builtin", hasEntries |-> TRUE,
      entries |-> <<>>,
      actions |-> <<optionsAction>>],
     [id |-> <<"broken">>, type |-> "clover", hasEntries |-> FALSE,
      entries |-> <<>>,
      actions |-> <<optionsAction>>] >>

\* the members of ThemePool at the positions S, in the pool's order
PickThemes(S) ==
  [i \in 1..Cardinality(S) |->
     ThemePool[CHOOSE k \in S : Cardinality({j \in S : j < k}) = i - 1]]

\* the themes arrays tried: every sub-list of ThemePool of at most MaxThemes themes
ThemeLists ==
  { PickThemes(S) : S \in { T \in SUBSET DOMAIN ThemePool : Cardinality(T) <= MaxThemes } }

\* the cloverThemes arrays tried (the field may also be absent)
CloverLists == { <<"Mojave">> }

\* the defaultTheme values tried; the empty id is a missing or empty field
DefaultThemes == { <<>>, <<"empty">>, <<"nope">> }

Documents ==
  { [hasThemes |-> TRUE, themes |-> t, hasClover |-> c # <<"absent">>,
     cloverThemes |-> IF c = <<"absent">> THEN <<>> ELSE c, defaultTheme |-> d] :
       t \in ThemeLists, c \in CloverLists \cup {<<"absent">>}, d \in DefaultThemes }
  \cup
  { [hasThemes |-> FALSE, themes |-> <<>>, hasClover |-> FALSE,
     cloverThemes |-> <<>>, defaultTheme |-> <<"classic">>] }

\* what fetch('config.json').then(res => res.json()) settles to
FetchOutcomes ==
  { [kind |-> "reject", doc |-> <<>>], [kind |-> "notJson", doc |-> <<>>] }
  \cup { [kind |-> "json", doc |-> <<d>>] : d \in Documents }

(***************************************************************************)
(* buildCloverTheme (lines 41-73) and getThemeStyle (lines 76-80).         *)
(***************************************************************************)
buildCloverTheme(themeName) ==
  [id |-> <<"clover-", themeName>>, type |-> "clover", style |-> "clover",
   hasEntries |-> TRUE,
   entries |-> <<Entry("macOS", ""), Entry("Windows", "")>>,
   actions |-> <<Action("shell", "UEFI Shell"), Action("clover", "Clover Config"),
                 Action("about", "About Clover"), optionsAction,
                 Action("reset", "Reset"), Action("shutdown", "Shutdown")>>]

getThemeStyle(theme) ==
  IF theme.type = "clover" THEN "clover"
  ELSE IF theme.id = <<"classic">> THEN "classic"
  ELSE "modern"

\* { ...t, style: getThemeStyle(t) } (lines 101-104)
withStyle(t) ==
  [id |-> t.id, type |-> t.type, style |-> getThemeStyle(t),
   hasEntries |-> t.hasEntries, entries |-> t.entries, actions |-> t.actions]

\* the Clover themes put before the config's own
allThemesCloverFirst(data) ==
  [i \in 1..Len(data.cloverThemes) |-> buildCloverTheme(data.cloverThemes[i])]
  \o [i \in 1..Len(data.themes) |-> withStyle(data.themes[i])]

\* [...builtinThemes, ...cloverThemes] (lines 101-109)
allThemes(data) ==
  [i \in 1..Len(data.themes) |-> withStyle(data.themes[i])]
  \o [i \in 1..Len(data.cloverThemes) |-> buildCloverTheme(data.cloverThemes[i])]

(***************************************************************************)
(* JavaScript numbers: NaN, and % with the sign of the dividend.           *)
(***************************************************************************)
NaN == 0 - 1000

JsAdd(a, b) == IF a = NaN \/ b = NaN THEN NaN ELSE a + b

JsMod(a, n) ==
  IF a = NaN \/ n = NaN \/ n = 0 THEN NaN
  ELSE IF a >= 0 THEN a % n
  ELSE 0 - ((0 - a) % n)

\* seq[i] for a 0-based JavaScript index is defined
has(seq, i) == i # NaN /\ i >= 0 /\ i < Len(seq)

\* themes.findIndex(t => t.id === id): 0-based, -1 when there is none
themeIndex(ths, id) ==
  IF \E i \in 1..Len(ths) : ths[i].id = id
    THEN (CHOOSE i \in 1..Len(ths) :
            /\ ths[i].id = id
            /\ \A j \in 1..(i - 1) : ths[j].id # id) - 1
    ELSE 0 - 1

(***************************************************************************)
(* The render's derived values (lines 128-130), for a state record s.      *)
(***************************************************************************)
hasTheme(s) == s.themes # <<>>

\* themes.find(item => item.id === themeId) ?? themes[0], as a 1-based position
themePos(s) ==
  IF themeIndex(s.themes, s.themeId) >= 0
    THEN themeIndex(s.themes, s.themeId) + 1 ELSE 1

themeOf(s) == s.themes[themePos(s)]

entriesOf(s) ==
  IF hasTheme(s) /\ themeOf(s).hasEntries THEN themeOf(s).entries ELSE <<>>

actionsOf(s) == IF hasTheme(s) THEN themeOf(s).actions ELSE <<>>

(***************************************************************************)
(* The status line's texts.                                                *)
(***************************************************************************)
Loading == <<"Loading...", "">>
FailedToLoad == <<"Failed to load config", "">>
Boot(name) == <<"Boot", name>>
Booting(name) == <<"Booting ...", name>>
NoUrl(name) == <<"Boot (no URL configured)", name>>
Named(name) == <<"", name>>

\* the component's state as one record
appRec ==
  [config |-> config, themes |-> themes, themeId |-> themeId,
   selectedIndex |-> selectedIndex, status |-> status, activeRow |-> activeRow,
   actionIndex |-> actionIndex, showOptions |-> showOptions,
   optionIndex |-> optionIndex]

commit(n) ==
  /\ config' = n.config
  /\ themes' = n.themes
  /\ themeId' = n.themeId
  /\ selectedIndex' = n.selectedIndex
  /\ status' = n.status
  /\ activeRow' = n.activeRow
  /\ actionIndex' = n.actionIndex
  /\ showOptions' = n.showOptions
  /\ optionIndex' = n.optionIndex

(***************************************************************************)
(* App: construction (lines 83-91).  The effects of the first render find  *)
(* no theme and return; the fetch of config.json is in flight.             *)
(***************************************************************************)
AppInitState ==
  /\ config = <<>>
  /\ themes = <<>>
  /\ themeId = <<"classic">>
  /\ selectedIndex = 0
  /\ status = Loading
  /\ activeRow = "entries"
  /\ actionIndex = 0
  /\ showOptions = FALSE
  /\ optionIndex = 0
  /\ loadState = "pending"
  /\ navTimers = <<>>
  /\ location = AppPage

AppInit == AppInitState /\ appMounted = TRUE

(***************************************************************************)
(* The two effects that set state (lines 133-151), run after the render of *)
(* cur, whose predecessor render was prev.  Both read the values of the    *)
(* render cur; the updates of the second are applied after the first's.    *)
(***************************************************************************)
\* a reset effect that leaves the actions row active
resetEffectKeepsRow(prev, cur, acc) ==
  IF hasTheme(cur)
     /\ (cur.themeId # prev.themeId \/ Len(cur.themes) # Len(prev.themes))
    THEN [acc EXCEPT !.selectedIndex = 0,
                     !.actionIndex = 0,
                     !.status = IF entriesOf(cur) # <<>>
                                  THEN Boot(entriesOf(cur)[1].name) ELSE @]
    ELSE acc

resetEffect(prev, cur, acc) ==
  IF hasTheme(cur)
     /\ (cur.themeId # prev.themeId \/ Len(cur.themes) # Len(prev.themes))
    THEN [acc EXCEPT !.selectedIndex = 0,
                     !.actionIndex = 0,
                     !.activeRow = "entries",
                     !.status = IF entriesOf(cur) # <<>>
                                  THEN Boot(entriesOf(cur)[1].name) ELSE @]
    ELSE acc

statusEffect(prev, cur, acc) ==
  IF hasTheme(cur)
     /\ (cur.selectedIndex # prev.selectedIndex \/ cur.activeRow # prev.activeRow
         \/ cur.themeId # prev.themeId)
     /\ cur.activeRow = "entries"
     /\ entriesOf(cur) # <<>>
    THEN [acc EXCEPT !.status =
            Boot(entriesOf(cur)[IF has(entriesOf(cur), cur.selectedIndex)
                                  THEN cur.selectedIndex + 1 ELSE 1].name)]
    ELSE acc

effectsPass(prev, cur) == statusEffect(prev, cur, resetEffect(prev, cur, cur))

\* render, effects, render, effects: the second pass changes the status only
settle(prev, cur) == effectsPass(cur, effectsPass(prev, cur))

(***************************************************************************)
(* The config load (lines 94-126): the then-callback's updates up to the   *)
(* statement that throws, then the catch-callback's.                       *)
(***************************************************************************)
loadedState(s, outcome) ==
  IF outcome.kind # "json"
    THEN [s EXCEPT !.status = FailedToLoad]
  ELSE LET data == outcome.doc[1]
           all == allThemes(data)
           defaultId == IF data.defaultTheme # <<>> THEN data.defaultTheme
                        ELSE <<"classic">>
           built == [s EXCEPT !.config = <<data>>, !.themes = all,
                              !.themeId = defaultId]
       IN IF ~data.hasThemes
            THEN [s EXCEPT !.config = <<data>>, !.status = FailedToLoad]
          ELSE IF all = <<>>
            THEN built
          ELSE IF ~themeOf(built).hasEntries
            THEN [built EXCEPT !.status = FailedToLoad]
          ELSE IF themeOf(built).entries # <<>>
            THEN [built EXCEPT !.status = Boot(themeOf(built).entries[1].name)]
          ELSE built

loadConfig(outcome) ==
  /\ appMounted
  /\ location = AppPage
  /\ loadState = "pending"
  /\ \E n \in {loadedState(appRec, outcome)} :
       /\ \E m \in {settle(appRec, n)} : commit(m)
       /\ loadState' = IF n.status = FailedToLoad THEN "failed" ELSE "loaded"
  /\ UNCHANGED <<navTimers, location, appMounted, xpVars, staticVars>>

(***************************************************************************)
(* bootEntry (lines 154-163): the new state and the urls of the timeouts   *)
(* started.                                                                *)
(***************************************************************************)
Result(s, nav) == [s |-> s, nav |-> nav]

\* a bootEntry that starts the navigation timeout whatever the url is
bootEntryAlwaysNavigates(s, entry) ==
  IF entry.url # ""
    THEN Result([s EXCEPT !.status = Booting(entry.name)], <<entry.url>>)
    ELSE Result([s EXCEPT !.status = NoUrl(entry.name)], <<entry.url>>)

bootEntry(s, entry) ==
  IF entry.url # ""
    THEN Result([s EXCEPT !.status = Booting(entry.name)], <<entry.url>>)
    ELSE Result([s EXCEPT !.status = NoUrl(entry.name)], <<>>)

\* a step to the right that forgets to wrap
nextIndexNoWrap(current, length) == JsAdd(current, 1)

\* the index a row moves to on ArrowLeft (lines 195, 197) and ArrowRight
\* (lines 203, 205)
prevIndex(current, length) == JsMod(JsAdd(JsAdd(current, 0 - 1), length), length)
nextIndex(current, length) == JsMod(JsAdd(current, 1), length)

\* moveEntries and moveActions of the static-theme App (lines 518-530):
\* the updater (current + delta + total) % total
moveIndex(current, delta, total) ==
  JsMod(JsAdd(JsAdd(current, delta), total), total)

(***************************************************************************)
(* handleKey, the options-modal branch (lines 171-190).  themes[-1].id     *)
(* throws a TypeError, which ends the handler before any update.           *)
(***************************************************************************)
\* a modal branch whose Escape also returns the selection to the entries row
handleOptionsKeyEscapeResets(s, key) ==
  IF key = "ArrowUp"
    THEN Result([s EXCEPT !.optionIndex = prevIndex(@, Len(s.themes))], <<>>)
  ELSE IF key = "ArrowDown"
    THEN Result([s EXCEPT !.optionIndex = nextIndex(@, Len(s.themes))], <<>>)
  ELSE IF key = "Enter"
    THEN IF has(s.themes, s.optionIndex)
           THEN Result([s EXCEPT !.themeId = s.themes[s.optionIndex + 1].id,
                                 !.showOptions = FALSE], <<>>)
           ELSE Result(s, <<>>)
  ELSE IF key = "Escape"
    THEN Result([s EXCEPT !.showOptions = FALSE, !.activeRow = "entries"], <<>>)
  ELSE Result(s, <<>>)

handleOptionsKey(s, key) ==
  IF key = "ArrowUp"
    THEN Result([s EXCEPT !.optionIndex = prevIndex(@, Len(s.themes))], <<>>)
  ELSE IF key = "ArrowDown"
    THEN Result([s EXCEPT !.optionIndex = nextIndex(@, Len(s.themes))], <<>>)
  ELSE IF key = "Enter"
    THEN IF has(s.themes, s.optionIndex)
           THEN Result([s EXCEPT !.themeId = s.themes[s.optionIndex + 1].id,
                                 !.showOptions = FALSE], <<>>)
           ELSE Result(s, <<>>)
  ELSE IF key = "Escape"
    THEN Result([s EXCEPT !.showOptions = FALSE], <<>>)
  ELSE Result(s, <<>>)

(***************************************************************************)
(* handleKey with the modal closed (lines 192-234).                        *)
(***************************************************************************)
handleRowKey(s, key) ==
  LET entries == entriesOf(s)
      actions == actionsOf(s)
  IN
  IF key = "ArrowLeft"
    THEN IF s.activeRow = "entries"
           THEN Result([s EXCEPT !.selectedIndex = prevIndex(@, Len(entries))], <<>>)
           ELSE Result([s EXCEPT !.actionIndex = prevIndex(@, Len(actions))], <<>>)
  ELSE IF key = "ArrowRight"
    THEN IF s.activeRow = "entries"
           THEN Result([s EXCEPT !.selectedIndex = nextIndex(@, Len(entries))], <<>>)
           ELSE Result([s EXCEPT !.actionIndex = nextIndex(@, Len(actions))], <<>>)
  ELSE IF key = "ArrowDown"
    THEN Result([s EXCEPT !.activeRow = "actions",
                          !.status = IF has(actions, s.actionIndex)
                                       THEN Named(actions[s.actionIndex + 1].name)
                                       ELSE @], <<>>)
  ELSE IF key = "ArrowUp"
    THEN Result([s EXCEPT !.activeRow = "entries",
                          !.status = IF has(entries, s.selectedIndex)
                                       THEN Boot(entries[s.selectedIndex + 1].name)
                                       ELSE @], <<>>)
  ELSE IF key = "Enter"
    THEN IF s.activeRow = "entries"
           THEN IF has(entries, s.selectedIndex)
                  THEN bootEntry(s, entries[s.selectedIndex + 1])
                  ELSE Result(s, <<>>)
           ELSE IF has(actions, s.actionIndex)
                   /\ actions[s.actionIndex + 1].id = "options"
                  THEN Result([s EXCEPT !.showOptions = TRUE,
                                        !.optionIndex = themeIndex(s.themes, s.themeId)],
                              <<>>)
                ELSE IF has(actions, s.actionIndex)
                  THEN Result([s EXCEPT !.status = Named(actions[s.actionIndex + 1].name)],
                              <<>>)
                ELSE Result(s, <<>>)
  ELSE Result(s, <<>>)

\* a modal branch that returns only after the keys it handles
handleKeyResultNoReturn(s, key) ==
  IF s.showOptions /\ key \in {"ArrowUp", "ArrowDown", "Enter", "Escape"}
    THEN handleOptionsKey(s, key)
    ELSE handleRowKey(s, key)

handleKeyResult(s, key) ==
  IF s.showOptions THEN handleOptionsKey(s, key) ELSE handleRowKey(s, key)

\* a handler's updates, the effects they trigger and the timeouts it started
apply(r) ==
  /\ Len(navTimers) + Len(r.nav) <= MaxNavTimers
  /\ \E n \in {settle(appRec, r.s)} : commit(n)
  /\ navTimers' = navTimers \o r.nav
  /\ UNCHANGED <<loadState, location, appMounted, xpVars, staticVars>>

\* the keydown listener exists while a theme is displayed (lines 166-239)
handleKey(key) ==
  /\ appMounted
  /\ location = AppPage
  /\ hasTheme(appRec)
  /\ \E r \in {handleKeyResult(appRec, key)} : apply(r)

(***************************************************************************)
(* The click handlers of the rendered theme (lines 270-274, 298-306,       *)
(* 317, 325-328).                                                          *)
(***************************************************************************)
entryClick(index) ==
  /\ appMounted
  /\ location = AppPage
  /\ has(entriesOf(appRec), index)
  /\ apply(Result([appRec EXCEPT !.activeRow = "entries",
                                 !.selectedIndex = index], <<>>))

entryDoubleClick(index) ==
  /\ appMounted
  /\ location = AppPage
  /\ has(entriesOf(appRec), index)
  /\ apply(bootEntry(appRec, entriesOf(appRec)[index + 1]))

actionClick(index) ==
  /\ appMounted
  /\ location = AppPage
  /\ has(actionsOf(appRec), index)
  /\ LET action == actionsOf(appRec)[index + 1]
         clicked == [appRec EXCEPT !.activeRow = "actions",
                                   !.actionIndex = index,
                                   !.status = Named(action.name)]
     IN IF action.id = "options"
          THEN apply(Result([clicked EXCEPT
                               !.showOptions = TRUE,
                               !.optionIndex = themeIndex(themes, themeId)],
                            <<>>))
          ELSE apply(Result(clicked, <<>>))

overlayClickResult(s) == Result([s EXCEPT !.showOptions = FALSE], <<>>)

overlayClick ==
  /\ appMounted
  /\ location = AppPage
  /\ hasTheme(appRec)
  /\ showOptions
  /\ apply(overlayClickResult(appRec))

optionItemClick(index) ==
  /\ appMounted
  /\ location = AppPage
  /\ showOptions
  /\ has(themes, index)
  /\ apply(Result([appRec EXCEPT !.themeId = themes[index + 1].id,
                                 !.showOptions = FALSE], <<>>))

\* the callback of bootEntry's timeout (lines 157-159): the page navigates
navTimerFire ==
  /\ location = AppPage
  /\ navTimers # <<>>
  /\ location' = Head(navTimers)
  /\ navTimers' = Tail(navTimers)
  /\ UNCHANGED <<appState, loadState, appMounted, xpVars, staticVars>>

\* unmount: the keydown listener is removed (line 238); bootEntry's
\* timeouts have no cleanup
appUnmount ==
  /\ appMounted
  /\ location = AppPage
  /\ appMounted' = FALSE
  /\ UNCHANGED <<appState, loadState, navTimers, location, xpVars, staticVars>>

(***************************************************************************)
(* The static-theme App (src/src/App.tsx lines 352-615): three built-in    *)
(* themes, a theme button per theme, no config and no modal.  Of an entry  *)
(* only the name, of an action only id and name reach the state.           *)
(***************************************************************************)
staticActions ==
  <<Action("shell", "UEFI Shell"), Action("clover", "Clover Config"),
    Action("about", "About Clover"), Action("options", "Options"),
    Action("reset", "Reset"), Action("shutdown", "Shutdown")>>

staticThemes ==
  << [id |-> "classic",
      entries |-> <<[name |-> "HFS"], [name |-> "RECOVERY"]>>,
      actions |-> staticActions],
     [id |-> "modern-dark",
      entries |-> <<[name |-> "macOS"], [name |-> "Windows"]>>,
      actions |-> staticActions],
     [id |-> "modern-light",
      entries |-> <<[name |-> "macOS"], [name |-> "Windows"]>>,
      actions |-> staticActions] >>

\* the component's state as one record
staticRec ==
  [themeId |-> staticThemeId, selectedIndex |-> staticSelectedIndex,
   status |-> staticStatus, activeRow |-> staticActiveRow,
   actionIndex |-> staticActionIndex]

staticCommit(n) ==
  /\ staticThemeId' = n.themeId
  /\ staticSelectedIndex' = n.selectedIndex
  /\ staticStatus' = n.status
  /\ staticActiveRow' = n.activeRow
  /\ staticActionIndex' = n.actionIndex

\* themes.find(item => item.id === themeId) ?? themes[0] (line 451)
staticThemeOf(s) ==
  IF \E i \in 1..Len(staticThemes) : staticThemes[i].id = s.themeId
    THEN staticThemes[CHOOSE i \in 1..Len(staticThemes) :
                        staticThemes[i].id = s.themeId]
    ELSE staticThemes[1]

staticEntriesOf(s) == staticThemeOf(s).entries
staticActionsOf(s) == staticThemeOf(s).actions

\* the state after the first render and its effects (lines 445-470)
StaticInitState ==
  /\ staticThemeId = "classic"
  /\ staticSelectedIndex = 0
  /\ staticStatus = Boot(staticThemes[1].entries[1].name)
  /\ staticActiveRow = "entries"
  /\ staticActionIndex = 0

StaticInit == StaticInitState /\ staticMounted = FALSE

\* the effect keyed on themeId (lines 455-463)
staticResetEffect(prev, cur, acc) ==
  IF cur.themeId # prev.themeId
    THEN [acc EXCEPT !.selectedIndex = 0,
                     !.actionIndex = 0,
                     !.activeRow = "entries",
                     !.status = Boot(staticEntriesOf(cur)[1].name)]
    ELSE acc

\* the effect keyed on selectedIndex, activeRow and themeId (lines 465-470)
staticStatusEffect(prev, cur, acc) ==
  IF (cur.selectedIndex # prev.selectedIndex \/ cur.activeRow # prev.activeRow
      \/ cur.themeId # prev.themeId)
     /\ cur.activeRow = "entries"
    THEN [acc EXCEPT !.status =
            Boot(staticEntriesOf(cur)[IF has(staticEntriesOf(cur), cur.selectedIndex)
                                        THEN cur.selectedIndex + 1 ELSE 1].name)]
    ELSE acc

staticEffectsPass(prev, cur) ==
  staticStatusEffect(prev, cur, staticResetEffect(prev, cur, cur))

staticSettle(prev, cur) == staticEffectsPass(cur, staticEffectsPass(prev, cur))

\* a handler's updates and the effects they trigger
staticApply(n) ==
  /\ staticMounted
  /\ \E m \in {staticSettle(staticRec, n)} : staticCommit(m)
  /\ UNCHANGED <<staticMounted, xpVars, appVars>>

\* handleKey of the static-theme App (lines 473-511)
staticHandleKeyResult(s, key) ==
  LET entries == staticEntriesOf(s)
      actions == staticActionsOf(s)
  IN
  IF key = "ArrowLeft"
    THEN IF s.activeRow = "entries"
           THEN [s EXCEPT !.selectedIndex = moveIndex(@, 0 - 1, Len(entries))]
           ELSE [s EXCEPT !.actionIndex = moveIndex(@, 0 - 1, Len(actions))]
  ELSE IF key = "ArrowRight"
    THEN IF s.activeRow = "entries"
           THEN [s EXCEPT !.selectedIndex = moveIndex(@, 1, Len(entries))]
           ELSE [s EXCEPT !.actionIndex = moveIndex(@, 1, Len(actions))]
  ELSE IF key = "ArrowDown"
    THEN [s EXCEPT !.activeRow = "actions",
                   !.status = IF has(actions, s.actionIndex)
                                THEN Named(actions[s.actionIndex + 1].name) ELSE @]
  ELSE IF key = "ArrowUp"
    THEN [s EXCEPT !.activeRow = "entries",
                   !.status = IF has(entries, s.selectedIndex)
                                THEN Boot(entries[s.selectedIndex + 1].name) ELSE @]
  ELSE IF key = "Enter"
    THEN IF s.activeRow = "entries"
           THEN [s EXCEPT !.status = IF has(entries, s.selectedIndex)
                                       THEN Booting(entries[s.selectedIndex + 1].name)
                                       ELSE @]
           ELSE [s EXCEPT !.status = IF has(actions, s.actionIndex)
                                       THEN Named(actions[s.actionIndex + 1].name)
                                       ELSE @]
  ELSE s

staticHandleKey(key) == staticApply(staticHandleKeyResult(staticRec, key))

\* the entry buttons' onClick (lines 554-557)
staticEntryClick(index) ==
  /\ has(staticEntriesOf(staticRec), index)
  /\ staticApply([staticRec EXCEPT !.activeRow = "entries",
                                  !.selectedIndex = index])

\* the action buttons' onClick (lines 581-585)
staticActionClick(index) ==
  /\ has(staticActionsOf(staticRec), index)
  /\ staticApply([staticRec EXCEPT
                    !.activeRow = "actions",
                    !.actionIndex = index,
                    !.status = Named(staticActionsOf(staticRec)[index + 1].name)])

\* a theme button's onClick (line 600): setThemeId(item.id)
themeButtonResult(s, i) == [s EXCEPT !.themeId = staticThemes[i].id]

themeButtonClick(i) == staticApply(themeButtonResult(staticRec, i))

StaticNext ==
  \/ \E key \in Keys : staticHandleKey(key)
  \/ \E index \in 0..(Len(staticEntriesOf(staticRec)) - 1) : staticEntryClick(index)
  \/ \E index \in 0..(Len(staticActionsOf(staticRec)) - 1) : staticActionClick(index)
  \/ \E i \in 1..Len(staticThemes) : themeButtonClick(i)

AppNext ==
  \/ \E outcome \in FetchOutcomes : loadConfig(outcome)
  \/ \E key \in Keys : handleKey(key)
  \/ \E index \in 0..(Len(entriesOf(appRec)) - 1) : entryClick(index)
  \/ \E index \in 0..(Len(entriesOf(appRec)) - 1) : entryDoubleClick(index)
  \/ \E index \in 0..(Len(actionsOf(appRec)) - 1) : actionClick(index)
  \/ overlayClick
  \/ \E index \in 0..(Len(themes) - 1) : optionItemClick(index)
  \/ navTimerFire
  \/ appUnmount

XPNext ==
  \/ memoryIntervalFire
  \/ addLinesTimeoutFire
  \/ transitionTimeoutFire
  \/ countdownIntervalFire
  \/ bootTimerFire
  \/ loginTimeoutFire
  \/ \E key \in XPKeys : handleKeyDown(key)
  \/ \E index \in 0..(Len(bootOptions) - 1) : bootOptionClick(index)
  \/ \E i \in 1..MaxUsers : handleUserClick(i)
  \/ exitButtonClick
  \/ xpUnmount
  \/ \E dt \in xpAdvanceSteps : xpAdvance(dt)

(***************************************************************************)
(* The specifications.  Each component runs alone; the other one stays as  *)
(* constructed (XPBootScreen with its default props).                      *)
(***************************************************************************)
InitXP == XPInit /\ AppInit /\ StaticInit

SpecXP == InitXP /\ [][XPNext]_vars

\* XPBootScreen with the timers the browser runs: a timer that is due fires,
\* and time passes
xpTimePasses == \E dt \in xpAdvanceSteps : xpAdvance(dt)

\* mounted with the default users (line 27)
InitXPLive == InitXP /\ users = defaultUsers

SpecXPLive ==
  /\ InitXPLive
  /\ [][XPNext]_vars
  /\ WF_vars(loginTimeoutFire)
  /\ WF_vars(xpTimePasses)

InitApp ==
  AppInit /\ StaticInit /\ XPInit /\ users = defaultUsers /\ postDuration = 3500

SpecApp == InitApp /\ [][AppNext]_vars

\* the page mounts one of the two Apps: the config-driven one or the
\* static-theme one
InitAnyApp ==
  /\ XPInit /\ users = defaultUsers /\ postDuration = 3500
  /\ AppInitState
  /\ StaticInitState
  /\ staticMounted \in BOOLEAN
  /\ appMounted = ~staticMounted

AnyAppNext == AppNext \/ StaticNext

SpecAnyApp == InitAnyApp /\ [][AnyAppNext]_vars

(***************************************************************************)
(* Properties of XPBootScreen, checked under SpecXP.                       *)
(***************************************************************************)

\* C1: the phase starts at 'post' and every step either keeps it or moves
\* it to the next phase of post -> bootloader -> boot -> login ->
\* logging-in -> desktop; it never goes back and never skips a phase.
C1_PhaseLinear ==
  /\ phase = "post"
  /\ [][phase' = phase \/ PhaseRank(phase') = PhaseRank(phase) + 1]_vars

\* the whole sequence was walked: the login timeout brought the desktop
C1_Witness ==
  /\ phase = "desktop"
  /\ xpEvent.branch = "loginTimeout"
  /\ xpMounted

\* C2: after a component is torn down no timer callback runs: no phase
\* change, no onLogin call (XPBootScreen) and no navigation (App).
C2_NoCallbackAfterTeardown ==
  [][/\ ~xpMounted => (phase' = phase /\ onLoginCalls' = onLoginCalls)
     /\ ~appMounted => location' = location]_vars

\* C9: an Escape key press invokes onExit exactly once and leaves phase,
\* countdown, bootloaderIndex, selectedUser and loggingInUser (and every
\* timer) as they were, whatever the phase.
C9_EscapeOnlyExits ==
  [][xpEvent'.kind = "key" /\ xpEvent'.key = "Escape"
       => /\ xpEvent'.onExit = 1
          /\ UNCHANGED <<phase, countdown, bootloaderIndex, selectedUser,
                         loggingInUser, xpTimers>>]_vars

\* Escape was pressed on the login screen with a user selected
C9_Witness ==
  /\ xpEvent.kind = "key"
  /\ xpEvent.key = "Escape"
  /\ xpEvent.onExit = 1
  /\ phase = "login"
  /\ Truthy(selectedUser)

\* C10: each duration prop is the length of its phase when no input ends
\* it: the POST timeout, the countdown's expiry and the boot timeout end
\* their phase postDuration, bootloaderDuration and bootDuration after it
\* began.
C10_DurationsGovern ==
  [][/\ xpEvent'.branch = "transitionTimeout" /\ phase' # phase
          => phaseElapsed = postDuration
     /\ xpEvent'.branch = "countdownInterval" /\ phase' # phase
          => phaseElapsed = bootloaderDuration
     /\ xpEvent'.branch = "timer" /\ phase' # phase
          => phaseElapsed = bootDuration]_vars

(***************************************************************************)
(* Properties of the config-driven App, checked under SpecApp.  after(r)   *)
(* is the state a handler with result r leaves once its effects have run.  *)
(***************************************************************************)
after(r) == settle(appRec, r.s)

\* C3: with the modal closed and n >= 1 items in the active row, ArrowRight
\* takes the row's index i to (i + 1) mod n and ArrowLeft takes it to
\* (i - 1 + n) mod n, for every i in 0..n-1; moveEntries and moveActions
\* of the static-theme App compute the same.
C3_ArrowWrap ==
  (hasTheme(appRec) /\ ~showOptions) =>
    LET n == Len(IF activeRow = "entries" THEN entriesOf(appRec)
                                           ELSE actionsOf(appRec))
        i == IF activeRow = "entries" THEN selectedIndex ELSE actionIndex
        right == after(handleKeyResult(appRec, "ArrowRight"))
        left == after(handleKeyResult(appRec, "ArrowLeft"))
    IN (n >= 1 /\ i \in 0..(n - 1)) =>
         /\ (IF activeRow = "entries" THEN right.selectedIndex
                                      ELSE right.actionIndex) = (i + 1) % n
         /\ (IF activeRow = "entries" THEN left.selectedIndex
                                      ELSE left.actionIndex) = (i - 1 + n) % n
         /\ moveIndex(i, 1, n) = (i + 1) % n
         /\ moveIndex(i, 0 - 1, n) = (i - 1 + n) % n

\* the last of several entries is selected: the next ArrowRight wraps
C3_Witness ==
  /\ hasTheme(appRec)
  /\ ~showOptions
  /\ activeRow = "entries"
  /\ Len(entriesOf(appRec)) >= 2
  /\ selectedIndex = Len(entriesOf(appRec)) - 1

\* C4: selectedIndex is a valid index into the displayed theme's entries and
\* actionIndex into its actions: an integer in 0..length-1, or 0 for an
\* empty list.
validIndex(i, length) == IF length = 0 THEN i = 0 ELSE i \in 0..(length - 1)

C4_IndicesValid ==
  hasTheme(appRec) =>
    /\ validIndex(selectedIndex, Len(entriesOf(appRec)))
    /\ validIndex(actionIndex, Len(actionsOf(appRec)))

\* C5: after a failed load the status is 'Failed to load config' and no
\* theme is displayed: the theme list is empty.
C5_FailedLoadIsStatic ==
  loadState = "failed" => (status = FailedToLoad /\ themes = <<>>)

\* C6: after a successful load the theme list is the config's themes in
\* their order followed by one synthesized theme per name of cloverThemes
\* in that order; a synthesized theme has id 'clover-<name>', type and
\* style 'clover', two entries with empty url and six actions, one of them
\* 'options'.
withoutStyle(t) ==
  [id |-> t.id, type |-> t.type, hasEntries |-> t.hasEntries,
   entries |-> t.entries, actions |-> t.actions]

C6_ThemeList ==
  loadState = "loaded" =>
    LET data == config[1]
        own == Len(data.themes)
        clover == IF data.hasClover THEN Len(data.cloverThemes) ELSE 0
    IN /\ Len(themes) = own + clover
       /\ \A i \in 1..own : withoutStyle(themes[i]) = data.themes[i]
       /\ \A j \in 1..clover :
            LET t == themes[own + j]
            IN /\ t.id = <<"clover-", data.cloverThemes[j]>>
               /\ t.type = "clover"
               /\ t.style = "clover"
               /\ Len(t.entries) = 2
               /\ \A e \in 1..Len(t.entries) : t.entries[e].url = ""
               /\ Len(t.actions) = 6
               /\ \E a \in 1..Len(t.actions) : t.actions[a].id = "options"

\* a config with themes of its own and a Clover theme was loaded
C6_Witness ==
  /\ loadState = "loaded"
  /\ Len(config[1].themes) >= 2
  /\ config[1].hasClover
  /\ Len(themes) = Len(config[1].themes) + 1

\* C7: Enter in the open modal makes themes[optionIndex] the active theme
\* and closes the modal.
C7_EnterSelectsHighlighted ==
  (hasTheme(appRec) /\ showOptions) =>
    /\ has(themes, optionIndex)
    /\ ~after(handleKeyResult(appRec, "Enter")).showOptions
    /\ after(handleKeyResult(appRec, "Enter")).themeId
         = themes[IF has(themes, optionIndex) THEN optionIndex + 1 ELSE 1].id

\* C8: Escape or an overlay click in the open modal closes it and leaves
\* themeId, selectedIndex, actionIndex and activeRow alone; Escape with the
\* modal closed changes nothing and starts no timeout.
sameSelection(s, t) ==
  /\ s.themeId = t.themeId
  /\ s.selectedIndex = t.selectedIndex
  /\ s.actionIndex = t.actionIndex
  /\ s.activeRow = t.activeRow

C8_EscapeClosesOnly ==
  hasTheme(appRec) =>
    IF showOptions
      THEN /\ ~after(handleKeyResult(appRec, "Escape")).showOptions
           /\ sameSelection(after(handleKeyResult(appRec, "Escape")), appRec)
           /\ ~after(overlayClickResult(appRec)).showOptions
           /\ sameSelection(after(overlayClickResult(appRec)), appRec)
      ELSE /\ after(handleKeyResult(appRec, "Escape")) = appRec
           /\ handleKeyResult(appRec, "Escape").nav = <<>>

\* the modal was left without a choice: it is closed on a highlighted
\* theme that is not the active one, with the actions row still active
C8_Witness ==
  /\ hasTheme(appRec)
  /\ ~showOptions
  /\ activeRow = "actions"
  /\ has(themes, optionIndex)
  /\ optionIndex >= 1
  /\ themes[optionIndex + 1].id # themeId

\* C11: the page navigates only as the result of booting an entry (Enter
\* on the entries row or a double click) whose url is not empty, and then
\* to that url; booting an entry without url sets the status to
\* 'Boot <name> (no URL configured)' and starts no navigation.
bootsNothing(r) == r.nav = <<>>

C11_NavigationOnlyByBoot ==
  /\ [](hasTheme(appRec) =>
          /\ \A k \in Keys :
               LET r == handleKeyResult(appRec, k)
                   booting == /\ k = "Enter"
                              /\ ~showOptions
                              /\ activeRow = "entries"
                              /\ has(entriesOf(appRec), selectedIndex)
               IN IF booting
                    THEN r = bootEntry(appRec, entriesOf(appRec)[selectedIndex + 1])
                    ELSE bootsNothing(r)
          /\ \A i \in 1..Len(entriesOf(appRec)) :
               LET e == entriesOf(appRec)[i]
                   r == bootEntry(appRec, e)
               IN IF e.url # ""
                    THEN r.nav = <<e.url>>
                    ELSE /\ bootsNothing(r)
                         /\ after(r).status = NoUrl(e.name))
  /\ [][Len(navTimers') > Len(navTimers) =>
          \E i \in 1..Len(entriesOf(appRec)) :
            /\ entriesOf(appRec)[i].url # ""
            /\ navTimers' = Append(navTimers, entriesOf(appRec)[i].url)
            /\ status' = Booting(entriesOf(appRec)[i].name)]_vars
  /\ [][location' # location =>
          /\ navTimers # <<>>
          /\ Head(navTimers) # ""
          /\ location' = Head(navTimers)]_vars

\* the page has navigated to the url of the booted entry
C11_Witness ==
  /\ location = "hfs/index.html"
  /\ status = Booting("HFS")
  /\ navTimers = <<>>

(***************************************************************************)
(* Further properties of XPBootScreen, checked under SpecXP.               *)
(***************************************************************************)
arrowKeyStep ==
  xpEvent'.kind = "key" /\ xpEvent'.key \in {"ArrowUp", "ArrowDown"}

\* C12: bootloaderIndex is always in 0..2; in the bootloader phase ArrowDown
\* takes it to (i + 1) mod 3 and ArrowUp to (i - 1 + 3) mod 3; in every
\* other phase the arrow keys leave it unchanged.
C12_BootloaderIndex ==
  /\ [](bootloaderIndex \in 0..2)
  /\ [][arrowKeyStep =>
          bootloaderIndex' =
            IF phase # "bootloader" THEN bootloaderIndex
            ELSE IF xpEvent'.key = "ArrowDown" THEN (bootloaderIndex + 1) % 3
            ELSE (bootloaderIndex - 1 + 3) % 3]_vars

\* ArrowDown on the last boot option has wrapped to the first
C12_Witness ==
  /\ phase = "bootloader"
  /\ xpEvent.kind = "key"
  /\ xpEvent.key = "ArrowDown"
  /\ bootloaderIndex = 0

\* C13: on the login screen, for every user list, ArrowDown selects the
\* user after the selected one (the first user when nothing or the last
\* user is selected), ArrowUp the user before it (the last user when
\* nothing or the first user is selected); selectedUser is always null or
\* a member of the users list.
isMember(u) == \E i \in 1..Len(users) : users[i] = u

\* the position in the users list of the user object u
positionOf(u) == CHOOSE i \in 1..Len(users) : users[i] = u

C13_LoginArrows ==
  /\ [](selectedUser = Null \/ isMember(selectedUser))
  /\ [][(arrowKeyStep /\ phase = "login" /\ Len(users) >= 1
         /\ (selectedUser = Null \/ isMember(selectedUser))) =>
          selectedUser' =
            IF xpEvent'.key = "ArrowDown"
              THEN (IF selectedUser = Null \/ positionOf(selectedUser) = Len(users)
                      THEN users[1]
                      ELSE users[positionOf(selectedUser) + 1])
              ELSE (IF selectedUser = Null \/ positionOf(selectedUser) = 1
                      THEN users[Len(users)]
                      ELSE users[positionOf(selectedUser) - 1])]_vars

\* C14: the countdown starts at 5, each one-second tick in the bootloader
\* phase takes exactly one from it, it is never negative, the phase changes
\* from bootloader to boot on the tick that brings it to 0, and once the
\* phase has left bootloader the countdown never changes again.
countdownTick == xpEvent'.kind = "timer" /\ xpEvent'.branch = "countdownInterval"

C14_Countdown ==
  /\ countdown = 5
  /\ [](countdown \in 0..5)
  /\ [][countdownTick =>
          /\ phase = "bootloader"
          /\ countdown' = countdown - 1
          /\ phaseElapsed = 1000 * (5 - countdown')
          /\ phase' = IF countdown' = 0 THEN "boot" ELSE "bootloader"]_vars
  /\ [][countdown' # countdown => countdownTick]_vars
  /\ [][phase # "bootloader" => countdown' = countdown]_vars

\* the fifth tick has brought the countdown to 0 and the phase to boot
C14_Witness ==
  /\ phase = "boot"
  /\ countdown = 0
  /\ xpEvent.branch = "countdownInterval"

\* C15: once the phase is 'logging-in' and the component stays mounted,
\* the phase eventually becomes 'desktop' (timers that are due fire), and
\* 'desktop' is terminal: no timer, key press or click changes the phase
\* afterwards.  Checked under SpecXPLive.
C15_LoginCompletes ==
  /\ (phase = "logging-in") ~> (phase = "desktop" \/ ~xpMounted)
  /\ [][phase = "desktop" => phase' = "desktop"]_vars

\* a key was pressed on the desktop of a mounted component
C15_Witness ==
  /\ phase = "desktop"
  /\ xpMounted
  /\ xpEvent.kind = "key"
  /\ xpEvent.key = "Enter"
  /\ onLoginCalls # <<>>

\* C16: while the component is mounted onLogin is invoked at most once, on
\* the step that takes the phase from 'logging-in' to 'desktop', and with
\* the user held in loggingInUser; this for every interleaving of clicks
\* and keys with the login timeout.
C16_OnLoginOnce ==
  [][(xpMounted /\ onLoginCalls' # onLoginCalls) =>
       /\ onLoginCalls = <<>>
       /\ phase = "logging-in"
       /\ phase' = "desktop"
       /\ onLoginCalls' = <<loggingInUser'>>]_vars

\* C17: a login starts only for the user that is selected: the phase
\* leaves 'login' only by Enter with a selected user or by a click on the
\* tile of the selected user, and it is that user who is logged in; in the
\* phases 'logging-in' and 'desktop' loggingInUser is a member of the users
\* list; Enter with no selected user leaves the phase at 'login'.
C17_LoginOnlyForSelected ==
  /\ [](phase \in {"logging-in", "desktop"} =>
          (Truthy(loggingInUser) /\ isMember(loggingInUser)))
  /\ [][(phase = "login" /\ phase' # "login") =>
          /\ phase' = "logging-in"
          /\ Truthy(selectedUser)
          /\ loggingInUser' = selectedUser
          /\ \/ xpEvent'.kind = "key" /\ xpEvent'.key = "Enter"
             \/ /\ xpEvent'.kind = "click"
                /\ users[xpEvent'.index + 1] = selectedUser]_vars
  /\ [][(xpEvent'.kind = "key" /\ xpEvent'.key = "Enter"
         /\ phase = "login" /\ ~Truthy(selectedUser)) => phase' = "login"]_vars

\* C18: no key press changes the phase, except Enter in the bootloader
\* phase (to 'boot') and Enter in the login phase with a selected user (to
\* 'logging-in'); no key press skips or shortens the post and boot phases.
C18_KeysAndPhase ==
  [][xpEvent'.kind = "key" =>
       IF xpEvent'.key = "Enter" /\ phase = "bootloader"
         THEN phase' = "boot"
       ELSE IF xpEvent'.key = "Enter" /\ phase = "login" /\ Truthy(selectedUser)
         THEN phase' = "logging-in"
       ELSE /\ phase' = phase
            /\ phase \in {"post", "boot"} =>
                 UNCHANGED <<transitionTimeout, timer, phaseElapsed>>]_vars

\* Enter was pressed during the boot animation, which goes on
C18_Witness ==
  /\ phase = "boot"
  /\ xpEvent.kind = "key"
  /\ xpEvent.key = "Enter"
  /\ timer > 0

(***************************************************************************)
(* Further properties of the config-driven App, checked under SpecApp.     *)
(***************************************************************************)
sameRows(s, t) ==
  /\ s.selectedIndex = t.selectedIndex
  /\ s.actionIndex = t.actionIndex
  /\ s.activeRow = t.activeRow

\* C19 as stated: while the options modal is open no key press changes
\* selectedIndex, actionIndex or activeRow.  Stated for the modals whose
\* themeId and optionIndex both name a theme of the list.
C19_NoKeyChangesRows ==
  (/\ hasTheme(appRec)
   /\ showOptions
   /\ themeIndex(themes, themeId) >= 0
   /\ has(themes, optionIndex)) =>
    \A k \in Keys : sameRows(after(handleKeyResult(appRec, k)), appRec)

\* C19 as amended: while the options modal is open no key press other than
\* Enter changes selectedIndex, actionIndex or activeRow: ArrowUp and
\* ArrowDown change only optionIndex, Escape only closes the modal, every
\* key other than these and Enter changes nothing, and no key press boots
\* an entry.
C19_ModalKeysFrame ==
  (hasTheme(appRec) /\ showOptions) =>
    \A k \in Keys :
      LET r == handleKeyResult(appRec, k)
          n == after(r)
      IN /\ bootsNothing(r)
         /\ k # "Enter" => sameRows(n, appRec)
         /\ k \in {"ArrowUp", "ArrowDown"} =>
              n = [appRec EXCEPT !.optionIndex = n.optionIndex]
         /\ k = "Escape" => n = [appRec EXCEPT !.showOptions = FALSE]
         /\ k \notin {"ArrowUp", "ArrowDown", "Enter", "Escape"} => n = appRec

\* the modal is open on a theme other than the displayed one, the options
\* action of several being selected
C19_Witness ==
  /\ showOptions
  /\ has(themes, optionIndex)
  /\ themeIndex(themes, themeId) >= 0
  /\ optionIndex # themeIndex(themes, themeId)
  /\ activeRow = "actions"
  /\ actionIndex >= 1

\* C20: whenever the options modal is open optionIndex is a valid index
\* into the theme list, and when the modal opens optionIndex is the index
\* of the displayed theme; for every loaded configuration, one whose
\* defaultTheme names no theme of the list included.
C20_OptionIndexValid ==
  hasTheme(appRec) =>
    IF showOptions
      THEN optionIndex \in 0..(Len(themes) - 1)
      ELSE LET opened == after(handleKeyResult(appRec, "Enter"))
           IN opened.showOptions => opened.optionIndex = themePos(appRec) - 1

(***************************************************************************)
(* A property of both Apps, checked under SpecAnyApp.                      *)
(***************************************************************************)
\* C21: whenever the active theme id changes (through the options modal, a
\* theme button or the initial config load) the selection is reset: once
\* the change has settled selectedIndex is 0, actionIndex is 0, activeRow
\* is 'entries' and, if the new theme has an entry, the status is 'Boot
\* <name of its first entry>', whatever the selection and status were.
C21_ThemeChangeResets ==
  /\ [][themeId' # themeId =>
          /\ selectedIndex' = 0
          /\ actionIndex' = 0
          /\ activeRow' = "entries"
          /\ entriesOf(appRec)' # <<>> => status' = Boot(entriesOf(appRec)'[1].name)]_vars
  /\ [][staticThemeId' # staticThemeId =>
          /\ staticSelectedIndex' = 0
          /\ staticActionIndex' = 0
          /\ staticActiveRow' = "entries"
          /\ staticStatus' = Boot(staticEntriesOf(staticRec)'[1].name)]_vars

\* the Clover theme was chosen in the options modal, which is reached from
\* the actions row only: the selection is back on the first entry
C21_Witness ==
  /\ themeId = <<"clover-", "Mojave">>
  /\ ~showOptions
  /\ selectedIndex = 0
  /\ actionIndex = 0
  /\ activeRow = "entries"
  /\ status = Boot("macOS")

=============================================================================
